---- MODULE Spec2Model ----
(***************************************************************************)
(* Cookie-based authentication template: the users table, the cookie       *)
(* (session) table, the AuthService store methods of database.ts and the   *)
(* login / signup form actions of login/+page.server.ts.                   *)
(*                                                                         *)
(* Time is in milliseconds, as Date.now() gives it.  Emails are sequences  *)
(* of characters so that String.toLowerCase is computed, not assumed.      *)
(***************************************************************************)
EXTENDS Integers, Sequences, FiniteSets, TLC

VARIABLES users, cookie, now, req, resp, tasks

vars == <<users, cookie, now, req, resp, tasks>>

----------------------------------------------------------------------------
(* Bounds of the model *)

MaxQuarters == 4

MaxRequests == 3

----------------------------------------------------------------------------
(* Inputs *)

None == "none"

Quarter == 15 * 60 * 1000

\* The instants the clock can show: the quarters of an hour.
Times == {q * Quarter : q \in 0..MaxQuarters}

\* "a@b" in two casings, and one other address.
Emails == { <<"a", "@", "b">>, <<"A", "@", "b">>, <<"c", "@", "b">> }

Passwords == {"1234", "wrong"}

\* The values generateRandomString can return.
CookieIDs == {"AAAA", "BBBB"}

----------------------------------------------------------------------------
(* Library functions *)

toLowerCaseChar(c) ==
    CASE c = "A" -> "a"
      [] c = "B" -> "b"
      [] c = "C" -> "c"
      [] OTHER -> c

toLowerCase(s) == [i \in DOMAIN s |-> toLowerCaseChar(s[i])]

argon2Hash(password) == <<"argon2", password>>

argon2Verify(hashed, password) == hashed = argon2Hash(password)

----------------------------------------------------------------------------
(* SQL statements of database.ts.  A statement's run() gives the number of *)
(* rows it changed; an INSERT that meets a PRIMARY KEY / UNIQUE conflict   *)
(* changes no row, and the driver either raises the conflict or reports    *)
(* changes = 0 (conflict clause of the schema, which is not in the source).*)

NextUserID(table) ==
    IF table = {} THEN 1
    ELSE (CHOOSE m \in {u.id : u \in table} : \A u \in table : u.id <= m) + 1

InsertUser(table, user) ==
    IF \E u \in table : u.email = user.email
    THEN { [table |-> table, changes |-> 0, threw |-> t] : t \in BOOLEAN }
    ELSE { [table |-> table \cup
                {[id |-> NextUserID(table), firstName |-> user.firstName,
                  lastName |-> user.lastName, email |-> user.email,
                  hashedPassword |-> user.hashedPassword, deleted |-> 0]},
            changes |-> 1, threw |-> FALSE] }

SelectUserByEmail(table, email) == {u \in table : u.email = email}

\* Variant: the statement replaces a row that has the id (INSERT OR REPLACE).
InsertCookieOrReplace(table, row) ==
    { [table |-> {c \in table : c.id # row.id} \cup {row},
       changes |-> 1, threw |-> FALSE] }

InsertCookie(table, row) ==
    IF \E c \in table : c.id = row.id
    THEN { [table |-> table, changes |-> 0, threw |-> t] : t \in BOOLEAN }
    ELSE { [table |-> table \cup {row}, changes |-> 1, threw |-> FALSE] }

DeleteCookie(table, id) ==
    LET hit == {c \in table : c.id = id}
    IN  [table |-> table \ hit, changes |-> Cardinality(hit)]

SelectCookie(table, id) == {c \in table : c.id = id}

UpdateCookieExpire(table, id, expireTime) ==
    LET hit == {c \in table : c.id = id}
    IN  [table |-> (table \ hit) \cup
                   {[c EXCEPT !.expireTime = expireTime] : c \in hit},
         changes |-> Cardinality(hit)]

----------------------------------------------------------------------------
(* AuthService *)

BaseUserRecord(firstName, lastName, email, hashedPassword) ==
    [firstName |-> firstName, lastName |-> lastName, email |-> email,
     hashedPassword |-> hashedPassword]

\* The session duration the README documents: "Default: 1 hour".
SessionDuration == 60 * 60 * 1000

DbResponse(success, message, data) ==
    [success |-> success, message |-> message, data |-> data, threw |-> FALSE]

Thrown == [success |-> FALSE, message |-> "SqliteError", data |-> None, threw |-> TRUE]

\* Variant: the lookup folds case (WHERE email = ? COLLATE NOCASE).
getUserByEmailNoCase(table, email) ==
    LET result == {u \in table : toLowerCase(u.email) = toLowerCase(email)}
    IN  IF result # {}
        THEN DbResponse(TRUE, "User was retrieved successfully",
                        CHOOSE u \in result : \A v \in result : u.id <= v.id)
        ELSE DbResponse(FALSE, "Couldn't find user", None)

getUserByEmail(table, email) ==
    LET result == SelectUserByEmail(table, email)
    IN  IF result # {}
        THEN DbResponse(TRUE, "User was retrieved successfully",
                        CHOOSE u \in result : \A v \in result : u.id <= v.id)
        ELSE DbResponse(FALSE, "Couldn't find user", None)

\* Variant: the insert is attempted without looking the email up first.
createUserNoCheck(table, user) ==
    { [users |-> o.table,
       res |-> IF o.threw THEN Thrown
               ELSE IF o.changes = 1
                    THEN DbResponse(TRUE, "User was created successfully", None)
                    ELSE DbResponse(FALSE, "User creation failed", None)]
      : o \in InsertUser(table, user) }

createUser(table, user) ==
    IF getUserByEmail(table, user.email).success
    THEN { [users |-> table, res |-> DbResponse(FALSE, "Email already in use", None)] }
    ELSE { [users |-> o.table,
            res |-> IF o.threw THEN Thrown
                    ELSE IF o.changes = 1
                         THEN DbResponse(TRUE, "User was created successfully", None)
                         ELSE DbResponse(FALSE, "User creation failed", None)]
           : o \in InsertUser(table, user) }

\* Variant: the row is stored with expireTime = Date.now(), no lifetime added.
createCookieNoTTL(table, cookieID, userID, t) ==
    { [cookie |-> o.table,
       res |-> IF o.threw THEN Thrown
               ELSE IF o.changes = 1
                    THEN DbResponse(TRUE, "Successful cookie creation", None)
                    ELSE DbResponse(FALSE, "Failed cookie creation", None)]
      : o \in InsertCookie(table, [id |-> cookieID, userID |-> userID,
                                   expireTime |-> t]) }

\* Variant: the row is stored under the user's 0-based position, not its id.
createCookieOffByOne(table, cookieID, userID, t) ==
    { [cookie |-> o.table,
       res |-> IF o.threw THEN Thrown
               ELSE IF o.changes = 1
                    THEN DbResponse(TRUE, "Successful cookie creation", None)
                    ELSE DbResponse(FALSE, "Failed cookie creation", None)]
      : o \in InsertCookie(table, [id |-> cookieID, userID |-> userID - 1,
                                   expireTime |-> t + 60 * 60 * 1000]) }

createCookie(table, cookieID, userID, t) ==
    { [cookie |-> o.table,
       res |-> IF o.threw THEN Thrown
               ELSE IF o.changes = 1
                    THEN DbResponse(TRUE, "Successful cookie creation", None)
                    ELSE DbResponse(FALSE, "Failed cookie creation", None)]
      : o \in InsertCookie(table, [id |-> cookieID, userID |-> userID,
                                   expireTime |-> t + 60 * 60 * 1000]) }

\* Variant: the DELETE matches no row (WHERE userID = ? with the cookie id).
removeCookieNoDelete(table, id) ==
    [cookie |-> table, res |-> DbResponse(FALSE, "Failed cookie deletion", None)]

removeCookie(table, id) ==
    LET result == DeleteCookie(table, id)
    IN  [cookie |-> result.table,
         res |-> IF result.changes = 1
                 THEN DbResponse(TRUE, "Successful cookie deletion", None)
                 ELSE DbResponse(FALSE, "Failed cookie deletion", None)]

\* Variant: the lookup skips rows whose expireTime has passed.
getCookieUnexpired(table, id) ==
    LET result == {c \in SelectCookie(table, id) : c.expireTime > now}
    IN  IF result # {}
        THEN DbResponse(TRUE, "Found cookie successfully", CHOOSE c \in result : TRUE)
        ELSE DbResponse(FALSE, "Failed to find cookie", None)

getCookie(table, id) ==
    LET result == SelectCookie(table, id)
    IN  IF result # {}
        THEN DbResponse(TRUE, "Found cookie successfully", CHOOSE c \in result : TRUE)
        ELSE DbResponse(FALSE, "Failed to find cookie", None)

\* Variant: the result test accepts changes = 0 (result.changes >= 0).
updateCookieReportsOk(table, cookieID, t) ==
    LET result == UpdateCookieExpire(table, cookieID, t + 1000 * 30 * 60)
    IN  [cookie |-> result.table,
         res |-> IF result.changes >= 0
                 THEN DbResponse(TRUE, "Updated cookie successfully", None)
                 ELSE DbResponse(FALSE, "Failed to update cookie", None)]

updateCookie(table, cookieID, t) ==
    LET result == UpdateCookieExpire(table, cookieID, t + 1000 * 30 * 60)
    IN  [cookie |-> result.table,
         res |-> IF result.changes = 1
                 THEN DbResponse(TRUE, "Updated cookie successfully", None)
                 ELSE DbResponse(FALSE, "Failed to update cookie", None)]

----------------------------------------------------------------------------
(* Form actions and the request hook.  Each gives the set of outcomes      *)
(* [users, cookie, resp] of one request handled at time t.                 *)

\* status, error and location are what the client gets; setCookie is the value
\* of the sessionID cookie the response sets; session and user are what the
\* hook found (ABSENT, EXPIRED or VALID) and attached to the request.
HttpResponse(status, error, location, setCookie, session, user) ==
    [status |-> status, error |-> error, location |-> location,
     setCookie |-> setCookie, session |-> session, user |-> user]

\* Variant: an unknown email gets its own error message.
loginDistinguish(utable, ctable, t, formEmail, password, cookieID) ==
    LET email == toLowerCase(formEmail)
        user == getUserByEmail(utable, email)
    IN  IF user.success /\ argon2Verify(user.data.hashedPassword, password)
        THEN { [users |-> utable, cookie |-> o.cookie,
                resp |-> IF o.res.threw
                         THEN HttpResponse(500, "Internal Error", None, None, None, None)
                         ELSE HttpResponse(302, None, "/home", cookieID, None, None)]
               : o \in createCookie(ctable, cookieID, user.data.id, t) }
        ELSE { [users |-> utable, cookie |-> ctable,
                resp |-> HttpResponse(422, IF user.success
                                           THEN "Incorrect username or password"
                                           ELSE user.message,
                                      None, None, None, None)] }

login(utable, ctable, t, formEmail, password, cookieID) ==
    LET email == toLowerCase(formEmail)
        user == getUserByEmail(utable, email)
    IN  IF user.success /\ argon2Verify(user.data.hashedPassword, password)
        THEN { [users |-> utable, cookie |-> o.cookie,
                resp |-> IF o.res.threw
                         THEN HttpResponse(500, "Internal Error", None, None, None, None)
                         ELSE HttpResponse(302, None, "/home", cookieID, None, None)]
               : o \in createCookie(ctable, cookieID, user.data.id, t) }
        ELSE { [users |-> utable, cookie |-> ctable,
                resp |-> HttpResponse(422, "Incorrect username or password",
                                      None, None, None, None)] }

\* Variant: the form's email is stored as typed, without toLowerCase.
signupNoLower(utable, ctable, t, formEmail, password) ==
    LET newUserData == BaseUserRecord("first", "last", formEmail,
                                      argon2Hash(password))
    IN  { [users |-> o.users, cookie |-> ctable,
           resp |-> IF o.res.threw
                    THEN HttpResponse(500, "Internal Error", None, None, None, None)
                    ELSE IF ~o.res.success
                         THEN HttpResponse(422, o.res.message, None, None, None, None)
                         ELSE HttpResponse(200, None, None, None, None, None)]
          : o \in createUser(utable, newUserData) }

\* Variant: a successful signup also opens a session for the new user.
signupAutoLogin(utable, ctable, t, formEmail, password) ==
    LET newUserData == BaseUserRecord("first", "last", toLowerCase(formEmail),
                                      argon2Hash(password))
    IN  { [users |-> o.users,
           cookie |-> IF o.res.success /\ ~o.res.threw
                      THEN (CHOOSE c \in createCookie(ctable, "AAAA",
                                        NextUserID(utable), t) : ~c.res.threw).cookie
                      ELSE ctable,
           resp |-> IF o.res.threw
                    THEN HttpResponse(500, "Internal Error", None, None, None, None)
                    ELSE IF ~o.res.success
                         THEN HttpResponse(422, o.res.message, None, None, None, None)
                         ELSE HttpResponse(200, None, None, "AAAA", None, None)]
          : o \in createUser(utable, newUserData) }

signup(utable, ctable, t, formEmail, password) ==
    LET newUserData == BaseUserRecord("first", "last", toLowerCase(formEmail),
                                      argon2Hash(password))
    IN  { [users |-> o.users, cookie |-> ctable,
           resp |-> IF o.res.threw
                    THEN HttpResponse(500, "Internal Error", None, None, None, None)
                    ELSE IF ~o.res.success
                         THEN HttpResponse(422, o.res.message, None, None, None, None)
                         ELSE HttpResponse(200, None, None, None, None, None)]
          : o \in createUser(utable, newUserData) }

\* The request hook: validate the presented session, refresh or reap it.
handle(utable, ctable, t, sessionID) ==
    LET found == getCookie(ctable, sessionID)
    IN  IF ~found.success
        THEN [users |-> utable, cookie |-> ctable,
              resp |-> HttpResponse(200, None, None, None, "ABSENT", None)]
        ELSE IF found.data.expireTime <= t
        THEN [users |-> utable, cookie |-> removeCookie(ctable, sessionID).cookie,
              resp |-> HttpResponse(200, None, None, None, "EXPIRED", None)]
        ELSE LET owner == {u \in utable : u.id = found.data.userID}
             IN  [users |-> utable, cookie |-> updateCookie(ctable, sessionID, t).cookie,
                  resp |-> HttpResponse(200, None, None, None, "VALID",
                                        IF owner = {} THEN None
                                        ELSE (CHOOSE u \in owner : TRUE).id)]

----------------------------------------------------------------------------
(* State machine *)

Request(op, email, id) == [op |-> op, email |-> email, id |-> id]

\* The signup requests that can be in flight at once.
SignupRequests == 1..MaxRequests

\* A signup request: where its handler stands (start: awaiting the form data;
\* hashing: awaiting argon2.hash; done: answered), its form fields, its answer.
Task(pc, email, password, result) ==
    [pc |-> pc, email |-> email, password |-> password, result |-> result]

Init ==
    /\ tasks = [r \in SignupRequests |-> Task("start", None, None, None)]
    /\ users = {}
    /\ cookie = {}
    /\ now = 0
    /\ req = Request(None, None, None)
    /\ resp = HttpResponse(0, None, None, None, None, None)

Tick ==
    /\ \E t \in Times : t > now /\ now' = t
    /\ UNCHANGED <<users, cookie, req, resp, tasks>>

Login ==
    \E e \in Emails, p \in Passwords, id \in CookieIDs :
        \E o \in login(users, cookie, now, e, p, id) :
            /\ users' = o.users
            /\ cookie' = o.cookie
            /\ resp' = o.resp
            /\ req' = Request("login", e, id)
            /\ UNCHANGED <<now, tasks>>

Signup ==
    \E e \in Emails, p \in Passwords :
        \E o \in signup(users, cookie, now, e, p) :
            /\ users' = o.users
            /\ cookie' = o.cookie
            /\ resp' = o.resp
            /\ req' = Request("signup", e, None)
            /\ UNCHANGED <<now, tasks>>

Handle ==
    \E id \in CookieIDs :
        LET o == handle(users, cookie, now, id)
        IN  /\ users' = o.users
            /\ cookie' = o.cookie
            /\ resp' = o.resp
            /\ req' = Request("handle", None, id)
            /\ UNCHANGED <<now, tasks>>

Next == Tick \/ Login \/ Signup \/ Handle

Spec == Init /\ [][Next]_vars

----------------------------------------------------------------------------
(* The AuthService methods called directly, with any arguments. *)

\* The userID arguments createCookie is called with.
UserIDs == {1, 2}

CreateUser ==
    \E e \in Emails :
        \E o \in createUser(users, BaseUserRecord("first", "last", e,
                                                   argon2Hash("1234"))) :
            /\ users' = o.users
            /\ resp' = o.res
            /\ req' = Request("createUser", e, None)
            /\ UNCHANGED <<cookie, now, tasks>>

GetUserByEmail ==
    \E e \in Emails :
        /\ resp' = getUserByEmail(users, e)
        /\ req' = Request("getUserByEmail", e, None)
        /\ UNCHANGED <<users, cookie, now, tasks>>

CreateCookie ==
    \E id \in CookieIDs, uid \in UserIDs :
        \E o \in createCookie(cookie, id, uid, now) :
            /\ cookie' = o.cookie
            /\ resp' = o.res
            /\ req' = Request("createCookie", None, id)
            /\ UNCHANGED <<users, now, tasks>>

RemoveCookie ==
    \E id \in CookieIDs :
        LET o == removeCookie(cookie, id)
        IN  /\ cookie' = o.cookie
            /\ resp' = o.res
            /\ req' = Request("removeCookie", None, id)
            /\ UNCHANGED <<users, now, tasks>>

GetCookie ==
    \E id \in CookieIDs :
        /\ resp' = getCookie(cookie, id)
        /\ req' = Request("getCookie", None, id)
        /\ UNCHANGED <<users, cookie, now, tasks>>

UpdateCookie ==
    \E id \in CookieIDs :
        LET o == updateCookie(cookie, id, now)
        IN  /\ cookie' = o.cookie
            /\ resp' = o.res
            /\ req' = Request("updateCookie", None, id)
            /\ UNCHANGED <<users, now, tasks>>

StoreNext ==
    Tick \/ CreateUser \/ GetUserByEmail \/ CreateCookie \/ RemoveCookie
         \/ GetCookie \/ UpdateCookie

StoreSpec == Init /\ [][StoreNext]_vars

----------------------------------------------------------------------------
(* Signup requests handled concurrently on the one event loop: a handler   *)
(* runs until it awaits, and other handlers run while it is suspended.     *)

\* The form data arrives; the handler reads email and password, calls
\* argon2.hash and is suspended on it.
SignupReadForm(r) ==
    /\ tasks[r].pc = "start"
    /\ \E e \in Emails, p \in Passwords :
          tasks' = [tasks EXCEPT ![r] = Task("hashing", e, p, None)]
    /\ UNCHANGED <<users, cookie, now, req, resp>>

\* The hash is there; the handler runs to its end without another await:
\* it builds the record, calls createUser and answers.
SignupResume(r) ==
    /\ tasks[r].pc = "hashing"
    /\ \E o \in signup(users, cookie, now, tasks[r].email, tasks[r].password) :
          /\ users' = o.users
          /\ cookie' = o.cookie
          /\ resp' = o.resp
          /\ req' = Request("signup", tasks[r].email, None)
          /\ tasks' = [tasks EXCEPT ![r] = Task("done", tasks[r].email,
                                                tasks[r].password, o.resp)]
    /\ UNCHANGED now

ConcNext == \E r \in SignupRequests : SignupReadForm(r) \/ SignupResume(r)

ConcSpec == Init /\ [][ConcNext]_vars

----------------------------------------------------------------------------
(* Properties *)

\* The step just taken handled a request of kind op (Tick alone moves the clock).
Handled(op) == req'.op = op /\ now' = now

\* C1: a validation at a time before the session's expireTime authenticates the
\* session's user and leaves the session with an expireTime strictly greater
\* than the one it had, also on the first refresh after createCookie.
C1_RefreshExtendsExpiry ==
    [][Handled("handle") =>
        \A c \in cookie :
            (c.id = req'.id /\ now < c.expireTime) =>
                /\ resp'.user = c.userID
                /\ \E d \in cookie' : d.id = c.id /\ d.expireTime > c.expireTime]_vars

\* C2: a validation that finds the presented session expired (expireTime <= now)
\* attaches no user, and afterwards getCookie for that id does not succeed.
C2_ExpiredSessionIsReaped ==
    [][Handled("handle") =>
        \A c \in cookie :
            (c.id = req'.id /\ c.expireTime <= now) =>
                /\ resp'.user = None
                /\ ~getCookie(cookie', req'.id).success]_vars

C2_Witness ==
    /\ req.op = "handle"
    /\ resp.session = "EXPIRED"
    /\ resp.user = None
    /\ ~getCookie(cookie, req.id).success
    /\ cookie # {}

\* C3: a signup whose email, ignoring case, no stored user has adds exactly one
\* user row (with the lower-cased email) and succeeds; a signup whose email some
\* stored user has in any casing fails with 422 'Email already in use' and
\* adds no row.
C3_SignupOncePerEmail ==
    [][Handled("signup") =>
        IF \E u \in users : toLowerCase(u.email) = toLowerCase(req'.email)
        THEN /\ users' = users
             /\ resp'.status = 422
             /\ resp'.error = "Email already in use"
        ELSE /\ resp'.status = 200
             /\ \E u \in users' :
                    /\ u \notin users
                    /\ users' = users \cup {u}
                    /\ u.email = toLowerCase(req'.email)]_vars

C3_Witness ==
    /\ req.op = "signup"
    /\ req.email # toLowerCase(req.email)
    /\ resp.status = 422
    /\ resp.error = "Email already in use"
    /\ Cardinality({u \in users : u.email = toLowerCase(req.email)}) = 1

\* C4 (as claimed): getUserByEmail finds a stored user under every query that
\* equals the stored email ignoring letter case.
C4_LookupIgnoresCase ==
    \A u \in users, q \in Emails :
        toLowerCase(q) = toLowerCase(u.email) =>
            /\ getUserByEmail(users, q).success
            /\ getUserByEmail(users, q).data = u

\* C4 (amended): getUserByEmail compares the email exactly: it succeeds, with
\* the stored user, iff the query is identical to a stored email; a query in
\* another casing is a normal success = false result; a query lower-cased
\* first, as login and signup do, finds the user signup stored.
C4_LookupIsExact ==
    \A q \in Emails :
        LET r == getUserByEmail(users, q)
        IN  /\ r.success <=> \E u \in users : u.email = q
            /\ r.success => r.data \in users /\ r.data.email = q
            /\ ~r.success => r.message = "Couldn't find user" /\ ~r.threw
            /\ \A u \in users :
                    toLowerCase(q) = u.email =>
                        getUserByEmail(users, toLowerCase(q)).data = u

C4_Witness ==
    \E u \in users :
        /\ req.op = "login"
        /\ req.email # u.email
        /\ toLowerCase(req.email) = u.email
        /\ resp.status = 302
        /\ ~getUserByEmail(users, req.email).success

\* C5: in every state, a login with an email no user has and a login with a
\* stored email and a password that does not verify have the same outcomes:
\* the one response 422 'Incorrect username or password', no cookie set, and
\* both tables as they were.
C5_LoginNonDistinguishable ==
    LET UnknownEmail ==
            { login(users, cookie, now, e, p, id) :
                e \in {x \in Emails :
                         ~\E u \in users : toLowerCase(u.email) = toLowerCase(x)},
                p \in Passwords, id \in CookieIDs }
        WrongPassword ==
            { login(users, cookie, now, ep[1], ep[2], id) :
                ep \in {x \in Emails \X Passwords :
                          \E u \in users :
                              /\ u.email = toLowerCase(x[1])
                              /\ ~argon2Verify(u.hashedPassword, x[2])},
                id \in CookieIDs }
    IN  /\ \A a \in UnknownEmail, b \in WrongPassword : a = b
        /\ \A a \in UnknownEmail \cup WrongPassword :
              a = { [users |-> users, cookie |-> cookie,
                     resp |-> HttpResponse(422, "Incorrect username or password",
                                           None, None, None, None)] }

C5_Witness ==
    /\ req.op = "login"
    /\ resp.status = 422
    /\ \E u \in users : u.email = toLowerCase(req.email)
    /\ \E e \in Emails : ~\E u \in users : toLowerCase(u.email) = toLowerCase(e)
    /\ cookie # {}

C7_CookieNamesOwnSession ==
    [][(Handled("login") /\ resp'.setCookie # None) =>
        \E c \in cookie' :
            /\ c \notin cookie
            /\ c.id = resp'.setCookie
            /\ c.userID = getUserByEmail(users, toLowerCase(req'.email)).data.id]_vars

\* C8: a signup step, succeeding or failing, leaves the cookie table as it was
\* and sets no sessionID cookie.
C8_SignupCreatesNoSession ==
    [][Handled("signup") => cookie' = cookie /\ resp'.setCookie = None]_vars

C8_Witness ==
    /\ req.op = "signup"
    /\ resp.status = 200
    /\ resp.setCookie = None
    /\ cookie # {}

\* C9: updateCookie(id) and removeCookie(id) for an id with no row return
\* success = false with their message, raise nothing, and leave the cookie and
\* the users table unchanged.
C9_MissingRowIsFailureValue ==
    [][((Handled("updateCookie") \/ Handled("removeCookie"))
            /\ ~\E c \in cookie : c.id = req'.id) =>
        /\ resp'.success = FALSE
        /\ resp'.threw = FALSE
        /\ resp'.message = IF req'.op = "updateCookie"
                           THEN "Failed to update cookie"
                           ELSE "Failed cookie deletion"
        /\ cookie' = cookie
        /\ users' = users]_vars

C9_Witness ==
    /\ req.op = "updateCookie"
    /\ resp.success = FALSE
    /\ ~\E c \in cookie : c.id = req.id
    /\ cookie # {}
    /\ users # {}

\* C10 (as claimed): after any createUser calls, no two stored users have
\* emails that are equal ignoring case.
C10_EmailsUniqueIgnoringCase ==
    \A u \in users, v \in users :
        u # v => toLowerCase(u.email) # toLowerCase(v.email)

\* C10 (amended): no two stored users have the same email string; createUser
\* fails with 'Email already in use', adding no row, exactly when an identical
\* email is stored, and otherwise adds one row, also when a stored email
\* differs from the new one only in letter case.
C10_EmailsUniqueExactly ==
    /\ \A u \in users, v \in users : u # v => u.email # v.email
    /\ \A e \in Emails :
          LET out == createUser(users, BaseUserRecord("first", "last", e,
                                                     argon2Hash("1234")))
          IN  IF \E u \in users : u.email = e
              THEN out = { [users |-> users,
                            res |-> DbResponse(FALSE, "Email already in use", None)] }
              ELSE \A o \in out :
                      /\ o.res.success
                      /\ users \subseteq o.users
                      /\ Cardinality(o.users) = Cardinality(users) + 1

C10_Witness ==
    \E u \in users, v \in users :
        /\ u # v
        /\ toLowerCase(u.email) = toLowerCase(v.email)
        /\ req.op = "createUser"
        /\ resp.success
        /\ req.email = v.email

\* C11: sliding-window renewal with one TTL.  A validation before the stored
\* expireTime finds the session VALID and keeps its row; and the expireTime a
\* session gets is one session duration past its last use, the same after a
\* refresh as after creation by login.
C11_SlidingWindowOneTTL ==
    [][/\ Handled("handle") =>
            \A c \in cookie :
                (c.id = req'.id /\ now < c.expireTime) =>
                    /\ resp'.session = "VALID"
                    /\ \E d \in cookie' :
                          d.id = c.id /\ d.expireTime = now + SessionDuration
       /\ (Handled("login") /\ cookie' # cookie) =>
            \A d \in cookie' \ cookie : d.expireTime = now + SessionDuration]_vars

\* C12: after every step no two session rows share an id and every row that
\* keeps its id keeps its userID; createCookie with an id that already has a
\* row fails (by result or by raising), and leaves the table as it was.
C12_SessionIdsUnique ==
    [][/\ \A c \in cookie', d \in cookie' : c.id = d.id => c = d
       /\ \A c \in cookie, d \in cookie' : c.id = d.id => d.userID = c.userID
       /\ (Handled("createCookie") /\ \E c \in cookie : c.id = req'.id) =>
            /\ cookie' = cookie
            /\ ~resp'.success]_vars

C12_Witness ==
    /\ req.op = "createCookie"
    /\ ~resp.success
    /\ ~resp.threw
    /\ resp.message = "Failed cookie creation"
    /\ \E c \in cookie : c.id = req.id
    /\ Cardinality(cookie) = 2

\* C13: a session row leaves the table only in a removeCookie step for its own
\* id; the passing of time removes nothing, and getCookie returns every stored
\* row with success = true, also one whose expireTime has passed.
C13_ExpiryIsLazy ==
    [][/\ \A c \in cookie :
            (~\E d \in cookie' : d.id = c.id) =>
                (Handled("removeCookie") /\ req'.id = c.id)
       /\ \A c \in cookie' :
            /\ getCookie(cookie', c.id).success
            /\ getCookie(cookie', c.id).data = c
       /\ (Handled("getCookie") /\ \E c \in cookie : c.id = req'.id) =>
            resp'.success /\ resp'.data \in cookie]_vars

C13_Witness ==
    /\ req.op = "getCookie"
    /\ resp.success
    /\ resp.data \in cookie
    /\ resp.data.expireTime < now

\* C14: a login that fails (no redirect) leaves both tables as they were and
\* sets no sessionID cookie; a login that succeeds (redirects) adds exactly one
\* session row and leaves the users and every other session row unchanged.
C14_LoginFrame ==
    [][Handled("login") =>
        /\ users' = users
        /\ IF resp'.status = 302
           THEN \E c \in cookie' : c \notin cookie /\ cookie' = cookie \cup {c}
           ELSE cookie' = cookie /\ resp'.setCookie = None]_vars

\* C15: after any signups, logins and validations, every session row's userID
\* is the id of a stored user.
C15_NoOrphanedSessions ==
    \A c \in cookie : \E u \in users : u.id = c.userID

C15_Witness ==
    /\ Cardinality(users) = 2
    /\ Cardinality(cookie) = 2
    /\ \A u \in users : \E c \in cookie : c.userID = u.id
    /\ req.op = "handle"
    /\ resp.session = "VALID"
    /\ \E u \in users : u.id = resp.user

\* C16: whatever the interleaving, among the answered signup requests for one
\* lower-cased email exactly one succeeded, every other got 422 'Email already
\* in use', and exactly one user row has that email.
C16_ConcurrentSignupsOneUser ==
    \A e \in {toLowerCase(x) : x \in Emails} :
        LET answered == {r \in SignupRequests :
                            /\ tasks[r].pc = "done"
                            /\ toLowerCase(tasks[r].email) = e}
        IN  answered # {} =>
                /\ Cardinality({r \in answered : tasks[r].result.status = 200}) = 1
                /\ \A r \in answered :
                      tasks[r].result.status # 200 =>
                          /\ tasks[r].result.status = 422
                          /\ tasks[r].result.error = "Email already in use"
                /\ Cardinality({u \in users : toLowerCase(u.email) = e}) = 1

\* Three requests for one address in two casings were suspended together; one
\* has succeeded, one has been refused, the third is still at its await.
C16_Witness ==
    \E r1 \in SignupRequests, r2 \in SignupRequests, r3 \in SignupRequests :
        /\ tasks[r1].pc = "done" /\ tasks[r1].result.status = 200
        /\ tasks[r2].pc = "done" /\ tasks[r2].result.status = 422
        /\ tasks[r3].pc = "hashing"
        /\ tasks[r1].email # tasks[r2].email
        /\ toLowerCase(tasks[r1].email) = toLowerCase(tasks[r2].email)
        /\ toLowerCase(tasks[r3].email) = toLowerCase(tasks[r1].email)

====
